---- MODULE Spec2Model ----
(***************************************************************************)
(* The rotating, compressing log-file sink of gollum's file producer:      *)
(* fileState (the active file, the pending batch, the background-writer    *)
(* wait group), its rotation policy needsRotate, the background            *)
(* compression task compressAndCloseLog and the shutdown sequence flush.   *)
(*                                                                         *)
(* Time is counted in minutes, file sizes in messages (every message is    *)
(* one unit of size), a file's content is the sequence of the messages     *)
(* written to it.                                                          *)
(***************************************************************************)
EXTENDS Integers, Sequences, FiniteSets

\* ------------------------------------------------------------------ bounds
\* Files ever opened by one sink (file handles are 1..MaxFiles, 0 is nil); a
\* sink that compresses is followed for one file fewer (see FileCap).
MaxFiles == 3
\* Messages ever passed to write (messages are 1..MaxMsgs).
MaxMsgs == 2
\* The last minute the clock of the sink's state machine reaches.
MaxNow == 1
\* The last calendar day the rotation policy's inputs are drawn from.
MaxDay == 1
\* Calls of flush() on one sink.
MaxShutdowns == 2
\* Dictionary options are drawn with lengths up to DictLen + MaxOver.
MaxOver == 1
\* Distinct Dictionary options of one length.
MaxDicts == 2
\* Messages copied by one io.CopyN call (the source's 1 MB chunk, scaled).
ChunkSize == 1

\* ---------------------------------------------------------------- calendar
MinutesPerHour == 60
HoursPerDay == 24
MinutesPerDay == HoursPerDay * MinutesPerHour

\* The length Base64Decode.Configure asks of a dictionary.
DictLen == 64

NoFile == 0
Files == 1..MaxFiles
Msgs == 1..MaxMsgs

VARIABLES
    rotate,       \* fileRotateConfig of the sink (immutable)
    file,         \* fileState.file: the active handle, NoFile when nil
    fileCreated,  \* fileState.fileCreated
    now,          \* the wall clock
    batch,        \* fileState.batch: messages appended and not yet flushed
    flight,       \* flushes issued by batch.Flush and not yet settled
    bgWriter,     \* fileState.bgWriter: the wait group's counter
    opened,       \* number of files opened so far (the next handle is opened+1)
    content,      \* content[f]: what is in the original file f
    onDisk,       \* onDisk[f]: the original file f exists on disk
    closed,       \* handles on which Close was called
    closeCalls,   \* Close calls made by flush() on the active handle
    task,         \* task[f]: the compression task owning retired file f
    archive,      \* archive[f]: the compressed sibling of file f
    mainPc,       \* position of the main path
    lastCheck,    \* arguments and result of the needsRotate call just made
                  \* (forgotten at the next step of anyone)
    nmsgs,        \* history: messages accepted by write so far
    msgFile,      \* history: the file that was active when a message was accepted
    written,      \* history: messages a flush wrote to a file
    lost,         \* history: messages whose flush ended in a write error
    late,         \* history: messages still in flight when WaitForFlush gave up
    conf,         \* the Dictionary option of the Base64Decode formatter's config
    dictionary,   \* Base64Decode.dictionary
    configureRet  \* what Base64Decode.Configure returned ("none": not called)

formatVars == <<conf, dictionary, configureRet>>

vars == <<rotate, file, fileCreated, now, batch, flight, bgWriter, opened, content,
          onDisk, closed, closeCalls, task, archive, mainPc, lastCheck, nmsgs,
          msgFile, written, lost, late, conf, dictionary, configureRet>>

\* ----------------------------------------------------------------- helpers
Range(s) == {s[i] : i \in 1..Len(s)}

Min(a, b) == IF a < b THEN a ELSE b

Prefix(n) == [i \in 1..n |-> i]

\* The files a sink opens within the bounds: every retired file of a
\* compressing sink adds a concurrent task, so such a sink stops one file sooner.
FileCap(cfg) == IF cfg.compress THEN MaxFiles - 1 ELSE MaxFiles

NoTask == [pc |-> "none", pos |-> 0, err |-> "nil", outcome |-> "none", rmErr |-> FALSE]

NoArchive == [exists |-> FALSE, data |-> <<>>, complete |-> FALSE]

NoCheck == [made |-> FALSE]

\* ---------------------------------------------------------- rotation policy
\* stats.Size() of the active file.
StatSize == Len(content[file])

\* time.Date(now.Year(), now.Month(), now.Day(), atHour, atMinute, 0, 0, loc)
RotateAt(cfg, t) ==
    (t \div MinutesPerDay) * MinutesPerDay + cfg.atHour * MinutesPerHour + cfg.atMinute

needsRotate_statAfterForce(cfg, forceRotate, statErr) ==
    IF file = NoFile THEN [rotate |-> TRUE, err |-> FALSE]
    ELSE IF ~cfg.enabled THEN [rotate |-> FALSE, err |-> FALSE]
    ELSE IF forceRotate THEN [rotate |-> TRUE, err |-> FALSE]
    ELSE IF statErr THEN [rotate |-> FALSE, err |-> TRUE]
    ELSE IF StatSize >= cfg.sizeByte THEN [rotate |-> TRUE, err |-> FALSE]
    ELSE IF now - fileCreated >= cfg.timeout THEN [rotate |-> TRUE, err |-> FALSE]
    ELSE IF cfg.atHour > -1 /\ cfg.atMinute > -1 /\ fileCreated - RotateAt(cfg, now) < 0
         THEN [rotate |-> TRUE, err |-> FALSE]
    ELSE [rotate |-> FALSE, err |-> FALSE]

needsRotate_forceFirst(cfg, forceRotate, statErr) ==
    IF file = NoFile THEN [rotate |-> TRUE, err |-> FALSE]
    ELSE IF statErr THEN [rotate |-> FALSE, err |-> TRUE]
    ELSE IF forceRotate THEN [rotate |-> TRUE, err |-> FALSE]
    ELSE IF ~cfg.enabled THEN [rotate |-> FALSE, err |-> FALSE]
    ELSE IF StatSize >= cfg.sizeByte THEN [rotate |-> TRUE, err |-> FALSE]
    ELSE IF now - fileCreated >= cfg.timeout THEN [rotate |-> TRUE, err |-> FALSE]
    ELSE IF cfg.atHour > -1 /\ cfg.atMinute > -1 /\ fileCreated - RotateAt(cfg, now) < 0
         THEN [rotate |-> TRUE, err |-> FALSE]
    ELSE [rotate |-> FALSE, err |-> FALSE]

needsRotate_strict(cfg, forceRotate, statErr) ==
    IF file = NoFile THEN [rotate |-> TRUE, err |-> FALSE]
    ELSE IF statErr THEN [rotate |-> FALSE, err |-> TRUE]
    ELSE IF ~cfg.enabled THEN [rotate |-> FALSE, err |-> FALSE]
    ELSE IF forceRotate THEN [rotate |-> TRUE, err |-> FALSE]
    ELSE IF StatSize > cfg.sizeByte THEN [rotate |-> TRUE, err |-> FALSE]
    ELSE IF now - fileCreated > cfg.timeout THEN [rotate |-> TRUE, err |-> FALSE]
    ELSE IF cfg.atHour > -1 /\ cfg.atMinute > -1 /\ fileCreated - RotateAt(cfg, now) < 0
         THEN [rotate |-> TRUE, err |-> FALSE]
    ELSE [rotate |-> FALSE, err |-> FALSE]

needsRotate_atInclusive(cfg, forceRotate, statErr) ==
    IF file = NoFile THEN [rotate |-> TRUE, err |-> FALSE]
    ELSE IF statErr THEN [rotate |-> FALSE, err |-> TRUE]
    ELSE IF ~cfg.enabled THEN [rotate |-> FALSE, err |-> FALSE]
    ELSE IF forceRotate THEN [rotate |-> TRUE, err |-> FALSE]
    ELSE IF StatSize >= cfg.sizeByte THEN [rotate |-> TRUE, err |-> FALSE]
    ELSE IF now - fileCreated >= cfg.timeout THEN [rotate |-> TRUE, err |-> FALSE]
    ELSE IF cfg.atHour > -1 /\ cfg.atMinute > -1 /\ fileCreated - RotateAt(cfg, now) <= 0
         THEN [rotate |-> TRUE, err |-> FALSE]
    ELSE [rotate |-> FALSE, err |-> FALSE]

\* fileState.needsRotate: the decision and whether an error is returned.
\* statErr is the outcome of state.file.Stat().
needsRotate(cfg, forceRotate, statErr) ==
    IF file = NoFile THEN [rotate |-> TRUE, err |-> FALSE]
    ELSE IF statErr THEN [rotate |-> FALSE, err |-> TRUE]
    ELSE IF ~cfg.enabled THEN [rotate |-> FALSE, err |-> FALSE]
    ELSE IF forceRotate THEN [rotate |-> TRUE, err |-> FALSE]
    ELSE IF StatSize >= cfg.sizeByte THEN [rotate |-> TRUE, err |-> FALSE]
    ELSE IF now - fileCreated >= cfg.timeout THEN [rotate |-> TRUE, err |-> FALSE]
    ELSE IF cfg.atHour > -1 /\ cfg.atMinute > -1 /\ fileCreated - RotateAt(cfg, now) < 0
         THEN [rotate |-> TRUE, err |-> FALSE]
    ELSE [rotate |-> FALSE, err |-> FALSE]

\* ------------------------------------------------------- batch collaborator
\* core.MessageBatch.Flush(writer, nil, onError): hands the buffered messages
\* to a write on writer and empties the buffer; nothing to do when empty.
batchFlush(writer) ==
    IF batch = <<>>
    THEN UNCHANGED <<batch, flight>>
    ELSE /\ flight' = Append(flight, [to |-> writer, msgs |-> batch])
         /\ batch' = <<>>

\* onWriterError answering true, which asks the batch to go on with the write.
onWriterError_continue == TRUE

\* fileState.onWriterError: logs and tells the batch not to go on.
onWriterError == FALSE

writeBatch_skip == UNCHANGED <<batch, flight>>

\* writeBatch waiting for the compression tasks before it issues the flush.
writeBatch_waitsForTasks == bgWriter = 0 /\ batchFlush(file)

\* fileState.writeBatch: state.batch.Flush(state.file, nil, state.onWriterError)
writeBatch == batchFlush(file)

InFlightMsgs == UNION {Range(flight[i].msgs) : i \in 1..Len(flight)}

\* The write of the oldest issued flush settles: it succeeds, or it fails and
\* onWriterError decides (false: stop, the content is not written again).
\* A write on a nil or closed handle always fails.
FlushSettle ==
    /\ flight # <<>>
    /\ LET h == Head(flight)
           canWrite == h.to # NoFile /\ h.to \notin closed
       IN \E ok \in (IF canWrite THEN BOOLEAN ELSE {FALSE}) :
            IF ok
            THEN /\ content' = [content EXCEPT ![h.to] = @ \o h.msgs]
                 /\ written' = written \cup Range(h.msgs)
                 /\ flight' = Tail(flight)
                 /\ UNCHANGED lost
            ELSE /\ lost' = lost \cup Range(h.msgs)
                 /\ flight' = IF onWriterError THEN flight ELSE Tail(flight)
                 /\ UNCHANGED <<content, written>>
    /\ lastCheck' = NoCheck
    /\ UNCHANGED formatVars
    /\ UNCHANGED <<rotate, file, fileCreated, now, batch, bgWriter, opened, onDisk,
                   closed, closeCalls, task, archive, mainPc, nmsgs, msgFile, late>>

\* --------------------------------------------------------------- main path
\* Open a new file and make it the active one (step (d) of a rotation, and the
\* lazy creation of the first file).
openLog ==
    /\ opened' = opened + 1
    /\ file' = opened + 1
    /\ fileCreated' = now
    /\ onDisk' = [onDisk EXCEPT ![opened + 1] = TRUE]

\* write: appends to the pending batch; the first write creates the file.
Write ==
    /\ mainPc = "run"
    /\ nmsgs < MaxMsgs
    /\ file = NoFile => opened < FileCap(rotate)
    /\ nmsgs' = nmsgs + 1
    /\ batch' = Append(batch, nmsgs + 1)
    /\ msgFile' = [msgFile EXCEPT ![nmsgs + 1] = IF file = NoFile THEN opened + 1 ELSE file]
    /\ IF file = NoFile THEN openLog ELSE UNCHANGED <<opened, file, fileCreated, onDisk>>
    /\ lastCheck' = NoCheck
    /\ UNCHANGED formatVars
    /\ UNCHANGED <<rotate, now, flight, bgWriter, content, closed, closeCalls, task,
                   archive, mainPc, written, lost, late>>

\* The batch's flush timer fires on the main path: writeBatch.
TimedFlush ==
    /\ mainPc = "run"
    /\ batch # <<>>
    /\ writeBatch
    /\ lastCheck' = NoCheck
    /\ UNCHANGED formatVars
    /\ UNCHANGED <<rotate, file, fileCreated, now, bgWriter, opened, content, onDisk,
                   closed, closeCalls, task, archive, mainPc, nmsgs, msgFile, written,
                   lost, late>>

\* checkAndRotate(forceRotate): asks needsRotate; on a rotation decision it
\* flushes the pending batch to the active file (a) and waits for that flush.
\* With no active file there is nothing to retire and the file is opened.
checkAndRotate(forceRotate, statErr) ==
    LET r == needsRotate(rotate, forceRotate, statErr) IN
    /\ mainPc = "run"
    /\ file = NoFile => ~statErr
    /\ lastCheck' = [made |-> TRUE, force |-> forceRotate, statErr |-> statErr,
                     hasFile |-> file # NoFile, rotate |-> r.rotate, err |-> r.err]
    /\ IF ~r.rotate
       THEN UNCHANGED <<file, fileCreated, opened, onDisk, batch, flight, mainPc>>
       ELSE /\ opened < FileCap(rotate)
            /\ IF file = NoFile
               THEN openLog /\ UNCHANGED <<batch, flight, mainPc>>
               ELSE /\ writeBatch
                    /\ mainPc' = "rot_flush"
                    /\ UNCHANGED <<file, fileCreated, opened, onDisk>>
    /\ UNCHANGED formatVars
    /\ UNCHANGED <<rotate, now, bgWriter, content, closed, closeCalls, task, archive,
                   nmsgs, msgFile, written, lost, late>>

\* The rest of a rotation, once the pre-rotation flush has settled: (b) retire
\* the active file, (c) spawn a compression task owning it or close it,
\* (d) open the new file.
RotateFinish ==
    /\ mainPc = "rot_flush"
    /\ flight = <<>>
    /\ IF rotate.compress
       THEN /\ task' = [task EXCEPT ![file].pc = "spawned"]
            /\ UNCHANGED closed
       ELSE /\ closed' = closed \cup {file}
            /\ UNCHANGED task
    /\ openLog
    /\ mainPc' = "run"
    /\ lastCheck' = NoCheck
    /\ UNCHANGED formatVars
    /\ UNCHANGED <<rotate, now, batch, flight, bgWriter, content, closeCalls, archive,
                   nmsgs, msgFile, written, lost, late>>

\* ---------------------------------------------------------------- shutdown
\* fileState.flush, statement by statement.
flush_noWriteBatch ==
    /\ mainPc = "run"
    /\ mainPc' = "sd_waitflush"
    /\ lastCheck' = NoCheck
    /\ UNCHANGED formatVars
    /\ UNCHANGED <<rotate, file, fileCreated, now, batch, flight, bgWriter, opened,
                   content, onDisk, closed, closeCalls, task, archive, nmsgs, msgFile,
                   written, lost, late>>

\* state.writeBatch()
flush_writeBatch ==
    /\ mainPc = "run"
    /\ writeBatch
    /\ mainPc' = "sd_waitflush"
    /\ lastCheck' = NoCheck
    /\ UNCHANGED formatVars
    /\ UNCHANGED <<rotate, file, fileCreated, now, bgWriter, opened, content, onDisk,
                   closed, closeCalls, task, archive, nmsgs, msgFile, written, lost,
                   late>>

\* state.batch.WaitForFlush(state.flushTimeout): returns when the flush has
\* settled, or when the timeout has elapsed with the flush still in flight.
flush_WaitForFlush ==
    /\ mainPc = "sd_waitflush"
    /\ late' = late \cup InFlightMsgs
    /\ mainPc' = "sd_waitbg"
    /\ lastCheck' = NoCheck
    /\ UNCHANGED formatVars
    /\ UNCHANGED <<rotate, file, fileCreated, now, batch, flight, bgWriter, opened,
                   content, onDisk, closed, closeCalls, task, archive, nmsgs, msgFile,
                   written, lost>>

\* state.bgWriter.Wait(): returns when the counter is zero.
flush_Wait ==
    /\ mainPc = "sd_waitbg"
    /\ bgWriter = 0
    /\ mainPc' = "sd_close"
    /\ lastCheck' = NoCheck
    /\ UNCHANGED formatVars
    /\ UNCHANGED <<rotate, file, fileCreated, now, batch, flight, bgWriter, opened,
                   content, onDisk, closed, closeCalls, task, archive, nmsgs, msgFile,
                   written, lost, late>>

\* flush treating a Close of an already closed handle as fatal.
flush_Close_panics ==
    /\ mainPc = "sd_close"
    /\ mainPc' = IF file \in closed THEN "panic" ELSE "done"
    /\ closed' = closed \cup ({file} \ {NoFile})
    /\ closeCalls' = closeCalls + 1
    /\ lastCheck' = NoCheck
    /\ UNCHANGED formatVars
    /\ UNCHANGED <<rotate, file, fileCreated, now, batch, flight, bgWriter, opened,
                   content, onDisk, task, archive, nmsgs, msgFile, written, lost, late>>

\* flush closing every file the sink ever opened instead of the active one.
flush_Close_all ==
    /\ mainPc = "sd_close"
    /\ closed' = closed \cup (1..opened)
    /\ closeCalls' = closeCalls + 1
    /\ mainPc' = "done"
    /\ lastCheck' = NoCheck
    /\ UNCHANGED formatVars
    /\ UNCHANGED <<rotate, file, fileCreated, now, batch, flight, bgWriter, opened,
                   content, onDisk, task, archive, nmsgs, msgFile, written, lost, late>>

\* state.file.Close(); flush returns. Close on a nil *os.File or on one that is
\* already closed returns an error and releases nothing; flush does not look at
\* the result.
flush_Close ==
    /\ mainPc = "sd_close"
    /\ closed' = closed \cup ({file} \ {NoFile})
    /\ closeCalls' = closeCalls + 1
    /\ mainPc' = "done"
    /\ lastCheck' = NoCheck
    /\ UNCHANGED formatVars
    /\ UNCHANGED <<rotate, file, fileCreated, now, batch, flight, bgWriter, opened,
                   content, onDisk, task, archive, nmsgs, msgFile, written, lost, late>>

\* flush() called again after an earlier call has returned: it starts over with
\* state.writeBatch().
flush_again ==
    /\ mainPc = "done"
    /\ closeCalls < MaxShutdowns
    /\ writeBatch
    /\ mainPc' = "sd_waitflush"
    /\ lastCheck' = NoCheck
    /\ UNCHANGED formatVars
    /\ UNCHANGED <<rotate, file, fileCreated, now, bgWriter, opened, content, onDisk,
                   closed, closeCalls, task, archive, nmsgs, msgFile, written, lost,
                   late>>

\* -------------------------------------------------------- compression task
\* io.CopyN(dst, src, n) with `remaining` messages left in src: copies
\* min(n, remaining) and returns EOF when fewer than n were copied.
CopyN(remaining) ==
    [n |-> Min(ChunkSize, remaining),
     err |-> IF remaining < ChunkSize THEN "EOF" ELSE "nil"]

\* state.bgWriter.Add(1), the first statement of the task.
TaskAdd(f) ==
    /\ task[f].pc = "spawned"
    /\ bgWriter' = bgWriter + 1
    /\ task' = [task EXCEPT ![f].pc = "open"]
    /\ lastCheck' = NoCheck
    /\ UNCHANGED formatVars
    /\ UNCHANGED <<rotate, file, fileCreated, now, batch, flight, opened, content,
                   onDisk, closed, closeCalls, archive, mainPc, nmsgs, msgFile,
                   written, lost, late>>

\* os.OpenFile(target, O_WRONLY|O_CREATE|O_TRUNC): on failure close the source
\* and return (the deferred Done runs); on success rewind the source.
TaskOpenTarget(f) ==
    /\ task[f].pc = "open"
    /\ \E ok \in BOOLEAN :
         IF ok
         THEN /\ archive' = [archive EXCEPT ![f] = [exists |-> TRUE, data |-> <<>>,
                                                   complete |-> FALSE]]
              /\ task' = [task EXCEPT ![f].pc = "copy", ![f].pos = 0]
              /\ UNCHANGED <<closed, bgWriter>>
         ELSE /\ closed' = closed \cup {f}
              /\ bgWriter' = bgWriter - 1
              /\ task' = [task EXCEPT ![f].pc = "done", ![f].outcome = "openfail"]
              /\ UNCHANGED archive
    /\ lastCheck' = NoCheck
    /\ UNCHANGED formatVars
    /\ UNCHANGED <<rotate, file, fileCreated, now, batch, flight, opened, content,
                   onDisk, closeCalls, mainPc, nmsgs, msgFile, written, lost, late>>

TaskCopy_oneChunk(f) ==
    /\ task[f].pc = "copy"
    /\ LET c == CopyN(Len(content[f]) - task[f].pos) IN
         /\ archive' = [archive EXCEPT ![f].data =
                           @ \o SubSeq(content[f], task[f].pos + 1, task[f].pos + c.n)]
         /\ task' = [task EXCEPT ![f].pos = @ + c.n, ![f].err = "EOF",
                                 ![f].pc = "cleanup"]
    /\ lastCheck' = NoCheck
    /\ UNCHANGED formatVars
    /\ UNCHANGED <<rotate, file, fileCreated, now, batch, flight, bgWriter, opened,
                   content, onDisk, closed, closeCalls, mainPc, nmsgs, msgFile,
                   written, lost, late>>

\* One turn of `for err == nil { _, err = io.CopyN(targetWriter, sourceFile, 1<<20) }`:
\* a chunk is copied, or the read or the write fails.
TaskCopy(f) ==
    /\ task[f].pc = "copy"
    /\ \E ioErr \in BOOLEAN :
         LET c == CopyN(Len(content[f]) - task[f].pos) IN
         IF ioErr
         THEN /\ task' = [task EXCEPT ![f].err = "io", ![f].pc = "cleanup"]
              /\ UNCHANGED archive
         ELSE /\ archive' = [archive EXCEPT ![f].data =
                                @ \o SubSeq(content[f], task[f].pos + 1, task[f].pos + c.n)]
              /\ task' = [task EXCEPT ![f].pos = @ + c.n, ![f].err = c.err,
                                      ![f].pc = IF c.err = "nil" THEN "copy" ELSE "cleanup"]
    /\ lastCheck' = NoCheck
    /\ UNCHANGED formatVars
    /\ UNCHANGED <<rotate, file, fileCreated, now, batch, flight, bgWriter, opened,
                   content, onDisk, closed, closeCalls, mainPc, nmsgs, msgFile,
                   written, lost, late>>

\* TaskCleanup without the deferred bgWriter.Done().
TaskCleanup_noDone(f) ==
    /\ task[f].pc = "cleanup"
    /\ closed' = closed \cup {f}
    /\ UNCHANGED bgWriter
    /\ IF task[f].err # "nil" /\ task[f].err # "EOF"
       THEN /\ \E rmOk \in BOOLEAN :
                 /\ archive' = [archive EXCEPT ![f] = IF rmOk THEN NoArchive ELSE @]
                 /\ task' = [task EXCEPT ![f].pc = "done", ![f].outcome = "streamfail",
                                         ![f].rmErr = ~rmOk]
            /\ UNCHANGED onDisk
       ELSE /\ \E closeOk \in BOOLEAN : archive' = [archive EXCEPT ![f].complete = closeOk]
            /\ \E rmOk \in BOOLEAN :
                 /\ onDisk' = [onDisk EXCEPT ![f] = IF rmOk THEN FALSE ELSE @]
                 /\ task' = [task EXCEPT ![f].pc = "done", ![f].outcome = "success",
                                         ![f].rmErr = ~rmOk]
    /\ lastCheck' = NoCheck
    /\ UNCHANGED formatVars
    /\ UNCHANGED <<rotate, file, fileCreated, now, batch, flight, opened, content,
                   closeCalls, mainPc, nmsgs, msgFile, written, lost, late>>

\* TaskCleanup with the end-of-stream test left out of the error check: the
\* io.EOF that ends every complete copy is handled as a stream failure.
TaskCleanup_eofIsError(f) ==
    /\ task[f].pc = "cleanup"
    /\ closed' = closed \cup {f}
    /\ bgWriter' = bgWriter - 1
    /\ IF task[f].err # "nil"
       THEN /\ \E rmOk \in BOOLEAN :
                 /\ archive' = [archive EXCEPT ![f] = IF rmOk THEN NoArchive ELSE @]
                 /\ task' = [task EXCEPT ![f].pc = "done", ![f].outcome = "streamfail",
                                         ![f].rmErr = ~rmOk]
            /\ UNCHANGED onDisk
       ELSE /\ \E closeOk \in BOOLEAN : archive' = [archive EXCEPT ![f].complete = closeOk]
            /\ \E rmOk \in BOOLEAN :
                 /\ onDisk' = [onDisk EXCEPT ![f] = IF rmOk THEN FALSE ELSE @]
                 /\ task' = [task EXCEPT ![f].pc = "done", ![f].outcome = "success",
                                         ![f].rmErr = ~rmOk]
    /\ lastCheck' = NoCheck
    /\ UNCHANGED formatVars
    /\ UNCHANGED <<rotate, file, fileCreated, now, batch, flight, opened, content,
                   closeCalls, mainPc, nmsgs, msgFile, written, lost, late>>

\* Cleanup: close the source, the gzip writer (its buffered data and footer
\* reach the target only if this Close succeeds; its result is not looked at)
\* and the target. A stream error removes the target and keeps the original;
\* otherwise the original is removed. The deferred Done runs.
TaskCleanup(f) ==
    /\ task[f].pc = "cleanup"
    /\ closed' = closed \cup {f}
    /\ bgWriter' = bgWriter - 1
    /\ IF task[f].err # "nil" /\ task[f].err # "EOF"
       THEN /\ \E rmOk \in BOOLEAN :
                 /\ archive' = [archive EXCEPT ![f] = IF rmOk THEN NoArchive ELSE @]
                 /\ task' = [task EXCEPT ![f].pc = "done", ![f].outcome = "streamfail",
                                         ![f].rmErr = ~rmOk]
            /\ UNCHANGED onDisk
       ELSE /\ \E closeOk \in BOOLEAN : archive' = [archive EXCEPT ![f].complete = closeOk]
            /\ \E rmOk \in BOOLEAN :
                 /\ onDisk' = [onDisk EXCEPT ![f] = IF rmOk THEN FALSE ELSE @]
                 /\ task' = [task EXCEPT ![f].pc = "done", ![f].outcome = "success",
                                         ![f].rmErr = ~rmOk]
    /\ lastCheck' = NoCheck
    /\ UNCHANGED formatVars
    /\ UNCHANGED <<rotate, file, fileCreated, now, batch, flight, opened, content,
                   closeCalls, mainPc, nmsgs, msgFile, written, lost, late>>

\* ------------------------------------------------------------------- clock
\* A minute passes. The clock is read only by the rotation check and when a
\* file is opened, so it is left alone once shutdown has begun.
Tick ==
    /\ mainPc \in {"run", "rot_flush"}
    /\ now < MaxNow
    /\ now' = now + 1
    /\ lastCheck' = NoCheck
    /\ UNCHANGED formatVars
    /\ UNCHANGED <<rotate, file, fileCreated, batch, flight, bgWriter, opened, content,
                   onDisk, closed, closeCalls, task, archive, mainPc, nmsgs, msgFile,
                   written, lost, late>>

\* ------------------------------------------------------ Base64Decode
\* A Dictionary option: a string, known by its length and by which of the
\* strings of that length it is. There is one empty string.
Dicts ==
    {[len |-> 0, id |-> 1]}
        \cup {[len |-> n, id |-> k] : n \in 1..(DictLen + MaxOver), k \in 1..MaxDicts}

\* conf.GetString("Dictionary", ""): an absent option reads as the empty string.
NoDict == [len |-> 0, id |-> 1]

\* The values of Base64Decode.dictionary: nil, base64.StdEncoding, and
\* base64.NewEncoding(dict).
NoEncoding == [kind |-> "nil"]
StdEncoding == [kind |-> "std"]
NewEncoding(dict) == [kind |-> "custom", alphabet |-> dict]

\* Configure accepting every dictionary of at most DictLen characters.
Configure_atMost ==
    /\ configureRet = "none"
    /\ IF conf.len = 0
       THEN dictionary' = StdEncoding /\ configureRet' = "nil"
       ELSE IF conf.len > DictLen
            THEN configureRet' = "error" /\ UNCHANGED dictionary
            ELSE dictionary' = NewEncoding(conf) /\ configureRet' = "nil"
    /\ UNCHANGED <<conf, rotate, file, fileCreated, now, batch, flight, bgWriter,
                   opened, content, onDisk, closed, closeCalls, task, archive, mainPc,
                   lastCheck, nmsgs, msgFile, written, lost, late>>

\* Base64Decode.Configure
Configure ==
    /\ configureRet = "none"
    /\ IF conf.len = 0
       THEN dictionary' = StdEncoding /\ configureRet' = "nil"
       ELSE IF conf.len # DictLen
            THEN configureRet' = "error" /\ UNCHANGED dictionary
            ELSE dictionary' = NewEncoding(conf) /\ configureRet' = "nil"
    /\ UNCHANGED <<conf, rotate, file, fileCreated, now, batch, flight, bgWriter,
                   opened, content, onDisk, closed, closeCalls, task, archive, mainPc,
                   lastCheck, nmsgs, msgFile, written, lost, late>>

\* The formatter as long as nobody configures it.
FormatIdle == conf = NoDict /\ dictionary = NoEncoding /\ configureRet = "none"

\* ---------------------------------------------------------- specifications
\* The configurations of the sink: rotation on or off, compression on or off,
\* rotation at 00:01 or at no time of day. needsRotate does not read compress,
\* so the time of day is combined with the sinks that do not compress.
SinkConfigs ==
    {cfg \in {[enabled |-> e, compress |-> c, sizeByte |-> 2, timeout |-> 1,
               atHour |-> at[1], atMinute |-> at[2]] :
                 e \in BOOLEAN, c \in BOOLEAN, at \in {<<-1, -1>>, <<0, 1>>}} :
        cfg.compress => cfg.atHour = -1}

Init ==
    /\ rotate \in SinkConfigs
    /\ file = NoFile
    /\ fileCreated = 0
    /\ now = 0
    /\ batch = <<>>
    /\ flight = <<>>
    /\ bgWriter = 0
    /\ opened = 0
    /\ content = [f \in Files |-> <<>>]
    /\ onDisk = [f \in Files |-> FALSE]
    /\ closed = {}
    /\ closeCalls = 0
    /\ task = [f \in Files |-> NoTask]
    /\ archive = [f \in Files |-> NoArchive]
    /\ mainPc = "run"
    /\ lastCheck = NoCheck
    /\ nmsgs = 0
    /\ msgFile = [m \in Msgs |-> NoFile]
    /\ written = {}
    /\ lost = {}
    /\ late = {}
    /\ FormatIdle

Next ==
    \/ Write
    \/ TimedFlush
    \/ \E forceRotate \in BOOLEAN, statErr \in BOOLEAN : checkAndRotate(forceRotate, statErr)
    \/ RotateFinish
    \/ FlushSettle
    \/ flush_writeBatch
    \/ flush_WaitForFlush
    \/ flush_Wait
    \/ flush_Close
    \/ \E f \in Files : TaskAdd(f)
    \/ \E f \in Files : TaskOpenTarget(f)
    \/ \E f \in Files : TaskCopy(f)
    \/ \E f \in Files : TaskCleanup(f)
    \/ Tick

Spec == Init /\ [][Next]_vars

\* The rotation policy on its own: the sink holds no file, or one file with
\* some flushed content, at sampled instants around the day boundary, under
\* every sampled configuration; the only step is one rotation check.
HourSamples == {0, HoursPerDay - 1}
MinuteSamples == {0, 1, MinutesPerHour - 1}
TimeSamples ==
    {d * MinutesPerDay + h * MinutesPerHour + m :
        d \in 0..MaxDay, h \in HourSamples, m \in MinuteSamples}
TimeoutSamples == {1, 2, (MaxDay + 1) * MinutesPerDay}

PolicyConfigs ==
    [enabled : BOOLEAN, compress : {TRUE}, sizeByte : 1..MaxMsgs, timeout : TimeoutSamples,
     atHour : {-1} \cup HourSamples, atMinute : {-1} \cup MinuteSamples]

PolicyInit ==
    /\ rotate \in PolicyConfigs
    /\ now \in TimeSamples
    /\ \E has \in BOOLEAN, sz \in 0..MaxMsgs :
         /\ ~has => sz = 0
         /\ file = (IF has THEN 1 ELSE NoFile)
         /\ opened = (IF has THEN 1 ELSE 0)
         /\ fileCreated \in (IF has THEN {t \in TimeSamples : t <= now} ELSE {0})
         /\ content = [f \in Files |-> IF f = 1 THEN Prefix(sz) ELSE <<>>]
         /\ onDisk = [f \in Files |-> has /\ f = 1]
         /\ nmsgs = sz
         /\ msgFile = [m \in Msgs |-> IF m <= sz THEN 1 ELSE NoFile]
         /\ written = 1..sz
    /\ batch = <<>>
    /\ flight = <<>>
    /\ bgWriter = 0
    /\ closed = {}
    /\ closeCalls = 0
    /\ task = [f \in Files |-> NoTask]
    /\ archive = [f \in Files |-> NoArchive]
    /\ mainPc = "run"
    /\ lastCheck = NoCheck
    /\ lost = {}
    /\ late = {}
    /\ FormatIdle

PolicyNext ==
    \E forceRotate \in BOOLEAN, statErr \in BOOLEAN : checkAndRotate(forceRotate, statErr)

PolicySpec == PolicyInit /\ [][PolicyNext]_vars

\* ------------------------------------------------------- repeated shutdown
\* The sink with flush() callable again after it has returned, for the sinks
\* that rotate by size or when forced: the clock stands still.
ShutdownInit == Init /\ rotate.enabled /\ rotate.atHour = -1

ShutdownNext ==
    \/ Write
    \/ TimedFlush
    \/ \E forceRotate \in BOOLEAN : checkAndRotate(forceRotate, FALSE)
    \/ RotateFinish
    \/ FlushSettle
    \/ flush_writeBatch
    \/ flush_WaitForFlush
    \/ flush_Wait
    \/ flush_Close
    \/ flush_again
    \/ \E f \in Files : TaskAdd(f)
    \/ \E f \in Files : TaskOpenTarget(f)
    \/ \E f \in Files : TaskCopy(f)
    \/ \E f \in Files : TaskCleanup(f)

ShutdownSpec == ShutdownInit /\ [][ShutdownNext]_vars

\* ------------------------------------------------- Base64Decode.Configure
\* A fresh formatter is configured once, with a Dictionary option drawn from
\* Dicts; the sink stays as constructed.
Base64Init ==
    /\ conf \in Dicts
    /\ dictionary = NoEncoding
    /\ configureRet = "none"
    /\ rotate \in {c \in SinkConfigs : ~c.enabled /\ ~c.compress /\ c.atHour = -1}
    /\ file = NoFile
    /\ fileCreated = 0
    /\ now = 0
    /\ batch = <<>>
    /\ flight = <<>>
    /\ bgWriter = 0
    /\ opened = 0
    /\ content = [f \in Files |-> <<>>]
    /\ onDisk = [f \in Files |-> FALSE]
    /\ closed = {}
    /\ closeCalls = 0
    /\ task = [f \in Files |-> NoTask]
    /\ archive = [f \in Files |-> NoArchive]
    /\ mainPc = "run"
    /\ lastCheck = NoCheck
    /\ nmsgs = 0
    /\ msgFile = [m \in Msgs |-> NoFile]
    /\ written = {}
    /\ lost = {}
    /\ late = {}

Base64Next == Configure

Base64Spec == Base64Init /\ [][Base64Next]_vars

\* ------------------------------------------------------- fair scheduling
\* The compressing sink under a scheduler that lets every goroutine that can
\* take a step take one eventually: each task (the copy loop yields with
\* runtime.Gosched), and the caller of flush().
FairInit == Init /\ rotate.enabled /\ rotate.compress /\ rotate.atHour = -1

Fairness ==
    /\ \A f \in Files : WF_vars(TaskAdd(f))
    /\ \A f \in Files : WF_vars(TaskOpenTarget(f))
    /\ \A f \in Files : WF_vars(TaskCopy(f))
    /\ \A f \in Files : WF_vars(TaskCleanup(f))
    /\ WF_vars(flush_WaitForFlush)
    /\ WF_vars(flush_Wait)
    /\ WF_vars(flush_Close)

\* Rotations are the forced ones and the ones by size: the clock stands still.
FairNext ==
    \/ Write
    \/ \E forceRotate \in BOOLEAN : checkAndRotate(forceRotate, FALSE)
    \/ RotateFinish
    \/ FlushSettle
    \/ flush_writeBatch
    \/ flush_WaitForFlush
    \/ flush_Wait
    \/ flush_Close
    \/ \E f \in Files : TaskAdd(f)
    \/ \E f \in Files : TaskOpenTarget(f)
    \/ \E f \in Files : TaskCopy(f)
    \/ \E f \in Files : TaskCleanup(f)

FairSpec == FairInit /\ [][FairNext]_vars /\ Fairness

\* ------------------------------------------------------------------ claims
Retired == {f \in Files : f <= opened /\ f # file}

Spawned == {f \in Files : task[f].pc # "none"}

Count(s, x) == Cardinality({i \in 1..Len(s) : s[i] = x})

\* C1 (as claimed): a compression task handed a retired file before shutdown
\* has finished by the time shutdown() has closed the active file and returned.
C1_ShutdownWaitsForTasks ==
    mainPc = "done" => \A f \in Spawned : task[f].pc = "done"

\* C2 (as claimed): shutdown closes the active file only after its flush was
\* issued (nothing is left in the pending batch) and never while the count of
\* outstanding compressions is above zero.
C2_CloseAfterFlushAndCompressions ==
    [][(mainPc = "sd_close" /\ mainPc' = "done") => (batch = <<>> /\ bgWriter = 0)]_vars

\* C3 (as claimed): when shutdown() has returned, the pending batch is empty
\* and every accepted message has been written to a file.
C3_AllWrittenAtReturn ==
    mainPc = "done" => (batch = <<>> /\ \A m \in 1..nmsgs : m \in written)

\* C3 (amended): when shutdown() has returned, the pending batch is empty and
\* every accepted message has been written to a file, except a message whose
\* write failed and one whose flush was still in flight when the flushTimeout
\* wait ended.
C3_FlushedAtReturn ==
    mainPc = "done" =>
        /\ batch = <<>>
        /\ \A m \in 1..nmsgs :
              m \in written \/ m \in lost \/ (m \in late /\ m \in InFlightMsgs)

C3_Witness ==
    /\ mainPc = "done"
    /\ nmsgs = MaxMsgs
    /\ written # {}
    /\ late \cap InFlightMsgs # {}

Decompress(a) == IF a.exists /\ a.complete THEN a.data ELSE <<>>

\* A compression succeeded: the task took its success path and the gzip stream
\* was written out completely.
Archived(f) ==
    task[f].pc = "done" /\ task[f].outcome = "success" /\ archive[f].exists
    /\ archive[f].complete

\* C5 (as claimed): every message accepted before a rotation boundary is
\* exactly once in the archive of the file retired at that boundary.
C5_RoundTripAll ==
    \A f \in Retired : Archived(f) =>
        \A m \in 1..nmsgs : Count(Decompress(archive[f]), m) = (IF msgFile[m] = f THEN 1 ELSE 0)

\* C5 (amended): every message accepted before a rotation boundary whose
\* write to the active file did not fail is exactly once in the archive of the
\* file retired at that boundary; a message whose write failed is in no
\* archive, and no archive holds a message of another file.
C5_RoundTripWritten ==
    \A f \in Retired : Archived(f) =>
        \A m \in 1..nmsgs :
            Count(Decompress(archive[f]), m) = (IF msgFile[m] = f /\ m \notin lost THEN 1 ELSE 0)

C5_Witness ==
    \E f \in Retired : Archived(f) /\ Len(Decompress(archive[f])) = MaxMsgs /\ ~onDisk[f]

\* C6: needsRotate returns what the first-match-wins decision table gives.
TodaysInstant == now - (now % MinutesPerDay) + rotate.atHour * MinutesPerHour + rotate.atMinute

TimeOfDayEnabled == rotate.atHour # -1 /\ rotate.atMinute # -1

DecisionTable ==
    CASE ~lastCheck.hasFile -> <<TRUE, FALSE>>
      [] lastCheck.hasFile /\ lastCheck.statErr -> <<FALSE, TRUE>>
      [] OTHER ->
           <<rotate.enabled /\
               (\/ lastCheck.force
                \/ Len(content[file]) >= rotate.sizeByte
                \/ now - fileCreated >= rotate.timeout
                \/ (TimeOfDayEnabled /\ fileCreated < TodaysInstant)),
             FALSE>>

C6_DecisionTable ==
    lastCheck.made => <<lastCheck.rotate, lastCheck.err>> = DecisionTable

C6_Witness ==
    /\ lastCheck.made /\ lastCheck.hasFile /\ ~lastCheck.statErr /\ ~lastCheck.force
    /\ rotate.enabled /\ ~TimeOfDayEnabled
    /\ Len(content[file]) = rotate.sizeByte
    /\ now - fileCreated < rotate.timeout
    /\ lastCheck.rotate /\ ~lastCheck.err

\* C7: with the policy disabled a sink that has an active file is never told
\* to rotate, whatever forceRotate, size, age and creation time are.
C7_DisabledNeverRotates ==
    (lastCheck.made /\ lastCheck.hasFile /\ ~rotate.enabled) => ~lastCheck.rotate

C7_Witness ==
    /\ lastCheck.made /\ lastCheck.hasFile /\ ~lastCheck.statErr /\ lastCheck.force
    /\ ~rotate.enabled
    /\ Len(content[file]) >= rotate.sizeByte
    /\ now - fileCreated >= rotate.timeout
    /\ TimeOfDayEnabled /\ fileCreated < TodaysInstant
    /\ ~lastCheck.rotate /\ ~lastCheck.err

\* C8: enabled, not forced, size and age below their thresholds: the check
\* rotates exactly when hour and minute are both set and createdAt is strictly
\* before hour:minute:00 of the current day.
C8_TimeOfDay ==
    (/\ lastCheck.made /\ lastCheck.hasFile /\ ~lastCheck.statErr /\ ~lastCheck.force
     /\ rotate.enabled
     /\ Len(content[file]) < rotate.sizeByte
     /\ now - fileCreated < rotate.timeout)
    => (lastCheck.rotate <=> (TimeOfDayEnabled /\ fileCreated < TodaysInstant))

\* 00:00 configured, created yesterday 23:59, checked today 00:01.
C8_Witness ==
    /\ lastCheck.made /\ lastCheck.hasFile /\ ~lastCheck.statErr /\ ~lastCheck.force
    /\ rotate.enabled /\ rotate.atHour = 0 /\ rotate.atMinute = 0
    /\ Len(content[file]) < rotate.sizeByte
    /\ now - fileCreated < rotate.timeout
    /\ fileCreated = MinutesPerDay - 1
    /\ now = MinutesPerDay + 1
    /\ lastCheck.rotate

\* C9: a rotation check whose Stat fails returns the error with a false
\* decision and changes nothing of the sink: no rotation, no flush, no task.
C9_StatFailure ==
    [][(lastCheck'.made /\ lastCheck'.statErr)
        => /\ ~lastCheck'.rotate /\ lastCheck'.err
           /\ UNCHANGED <<file, fileCreated, bgWriter, opened, task, batch, flight,
                          content, onDisk, closed, archive, mainPc>>]_vars

C9_Witness ==
    /\ lastCheck.made /\ lastCheck.statErr /\ lastCheck.force /\ rotate.enabled
    /\ batch # <<>>
    /\ ~lastCheck.rotate /\ lastCheck.err
    /\ mainPc = "run"

\* C10 (as claimed): of every retired file either the original is on disk or
\* an archive exists from which its complete content can be read back.
C10_NoDataLoss ==
    \A f \in Retired :
        onDisk[f] \/ (archive[f].exists /\ Decompress(archive[f]) = content[f])

\* C11 as stated: once a task whose copy hit a read or write error has
\* finished, the original file is still on disk and the partly written
\* compressed file is not.
C11_PartialRemoved ==
    \A f \in Files :
        (task[f].pc = "done" /\ task[f].err = "io") =>
            (onDisk[f] /\ ~archive[f].exists)

\* C11: once a task whose copy hit a read or write error has finished, it has
\* taken the failure path, the original file is still on disk, and the partly
\* written compressed file is gone unless removing it failed (which is only
\* logged); a copy that ended with a clean end of stream never takes the failure
\* path.
C11_StreamFailure ==
    \A f \in Files :
        task[f].pc = "done" =>
            /\ task[f].err = "io" =>
                   /\ task[f].outcome = "streamfail"
                   /\ onDisk[f]
                   /\ archive[f].exists <=> task[f].rmErr
                   /\ ~archive[f].complete
            /\ task[f].err = "EOF" => task[f].outcome = "success"

\* A task failed after it had copied part of a non-empty file, and the partial
\* compressed file was removed while the original stayed.
C11_Witness ==
    \E f \in Files :
        /\ task[f].pc = "done"
        /\ task[f].err = "io"
        /\ task[f].pos > 0
        /\ task[f].pos < Len(content[f])
        /\ onDisk[f]
        /\ ~archive[f].exists

\* The files handed to a compression task.
Owned == {f \in Files : task[f].pc # "none"}

\* C12: there is one active file at most and it is owned by no compression
\* task; a retired file handed to a task is the target of no pending write;
\* every rotation of a compressing sink hands exactly the file that was active
\* to exactly one new task; a file is handed to a task once; and the main path
\* never writes to or closes a file a task owns: only steps of that task close
\* it.
C12_SingleOwner ==
    /\ [](/\ file \notin Owned
          /\ \A i \in 1..Len(flight) : flight[i].to \notin Owned)
    /\ [][/\ \A f \in Owned :
               /\ content'[f] = content[f]
               /\ (f \in closed' /\ f \notin closed) =>
                      (task[f].pc \in {"open", "cleanup"} /\ task'[f].pc = "done")
               /\ task'[f].pc \notin {"none", "spawned"} \/ task'[f] = task[f]
          /\ (file' # file /\ file # NoFile /\ rotate.compress) =>
                 /\ Owned' = Owned \cup {file}
                 /\ file \notin Owned]_vars

\* A task is copying a retired file while the sink has already written a
\* message to the file that replaced it.
C12_Witness ==
    \E f \in Files :
        /\ task[f].pc = "copy"
        /\ file \notin {NoFile, f}
        /\ content[file] # <<>>
        /\ content[f] # <<>>

\* The program counters of the main path.
MainPcs == {"run", "rot_flush", "sd_waitflush", "sd_waitbg", "sd_close", "done"}

C14_WriteErrorNonFatal ==
    /\ mainPc \in MainPcs
    /\ lost \cap written = {}
    /\ lost \cap (InFlightMsgs \cup Range(batch)) = {}
    /\ (lost # {} /\ mainPc = "run" /\ nmsgs < MaxMsgs /\ file # NoFile) => ENABLED Write
    /\ (lost # {} /\ mainPc = "run" /\ batch # <<>>) => ENABLED TimedFlush

\* The write of the first message failed, and the message accepted and flushed
\* after it has been written to the file.
C14_Witness ==
    /\ 1 \in lost
    /\ 2 \in written
    /\ msgFile[1] = msgFile[2]
    /\ content[msgFile[2]] = <<2>>

C16_RotatesAfterWrites ==
    [][(/\ lastCheck'.made /\ ~lastCheck'.force /\ ~lastCheck'.statErr
        /\ rotate.enabled /\ rotate.compress
        /\ file = 1 /\ opened = 1
        /\ nmsgs >= rotate.sizeByte
        /\ lost = {})
          => (lastCheck'.rotate /\ mainPc' = "rot_flush")]_vars

\* C16: once the messages written to the active file total maxSizeBytes or
\* more, a single checkAndRotate(false) rotates; one checkAndRotate call
\* performs at most one rotation and spawns at most one task: it opens exactly
\* one file, which is empty, and on a compressing sink hands exactly the retired
\* file to exactly one new task; and the archive of a successful compression
\* holds exactly what was written to its file.
C16_SizeRotation ==
    /\ [](\A f \in Files : Archived(f) => Decompress(archive[f]) = content[f])
    /\ [][/\ (/\ lastCheck'.made /\ ~lastCheck'.force /\ ~lastCheck'.statErr
              /\ rotate.enabled
              /\ file # NoFile
              /\ Len(content[file]) >= rotate.sizeByte)
                => (lastCheck'.rotate /\ mainPc' = "rot_flush" /\ file' = file)
          /\ opened' \in {opened, opened + 1}
          /\ Cardinality(Owned' \ Owned) <= 1
          /\ (mainPc = "rot_flush" /\ mainPc' = "run") =>
                 /\ opened' = opened + 1
                 /\ file' = opened'
                 /\ content'[file'] = <<>>
                 /\ Owned' \ Owned = (IF rotate.compress THEN {file} ELSE {})]_vars

\* A checkAndRotate(false) has just decided to rotate a file that holds every
\* message and is neither old enough nor due by time of day: the size rule.
C16_Witness ==
    /\ lastCheck.made /\ ~lastCheck.force /\ lastCheck.rotate
    /\ mainPc = "rot_flush"
    /\ rotate.compress
    /\ Len(content[file]) = MaxMsgs
    /\ Len(content[file]) >= rotate.sizeByte
    /\ now - fileCreated < rotate.timeout
    /\ rotate.atHour = -1

C18_TasksTerminate ==
    /\ \A f \in Files : (task[f].pc # "none") ~> (task[f].pc = "done")
    /\ (mainPc = "sd_waitflush") ~> (mainPc = "done")
    /\ [](\A f \in Files : task[f].pc = "done" <=> task[f].outcome # "none")
    /\ [][\A f \in Files :
            /\ task[f].pc # "none" => task'[f].pc # "none"
            /\ task[f].pc = "done" => task'[f] = task[f]]_vars

\* Shutdown has returned after a rotation whose task ended on the failure path
\* and has been counted out of bgWriter.
C18_Witness ==
    /\ mainPc = "done"
    /\ bgWriter = 0
    /\ \E f \in Files : task[f].pc = "done" /\ task[f].outcome = "streamfail"

\* C19: the task counter is never negative and always equals the number of
\* compression tasks spawned and not yet finished.
C19_CounterMatchesTasks ==
    /\ bgWriter >= 0
    /\ bgWriter = Cardinality({f \in Files : task[f].pc \notin {"none", "done"}})

\* C20: with rotation enabled and a time of day configured, a
\* checkAndRotate(false) on a file below the size and age thresholds does not
\* rotate a file that a rotation opened on the current calendar day; so the
\* time-of-day rule rotates at most once a day.
C20_OncePerDay ==
    [][(/\ lastCheck'.made /\ ~lastCheck'.force /\ ~lastCheck'.statErr
        /\ lastCheck'.hasFile
        /\ rotate.enabled /\ TimeOfDayEnabled
        /\ StatSize < rotate.sizeByte
        /\ now - fileCreated < rotate.timeout
        /\ file > 1
        /\ fileCreated \div MinutesPerDay = now \div MinutesPerDay)
          => ~lastCheck'.rotate]_vars

====
